---------------------------- MODULE Spec2Model ----------------------------
(***************************************************************************)
(* The voice call session of src/components/CallInterface.tsx as a state   *)
(* machine: the component's React state and refs, the resources each       *)
(* startSession attempt acquires (playback AudioContext, microphone        *)
(* stream, live transport session, capture processor), the transport       *)
(* callbacks, the capture callback and the playback scheduling done in     *)
(* onmessage.                                                              *)
(*                                                                         *)
(* Each startSession call is an attempt a \in Attempts.  Resources are     *)
(* indexed by the attempt that created them; a ref holds an attempt id, or *)
(* 0 for null.  Times are integers (ticks of an AudioContext clock), audio *)
(* samples are integers in units of 0.01 of full scale.                    *)
(*                                                                         *)
(* The application around it (src/App.tsx), the product form, the persona  *)
(* screen, the text chat and the evaluation screen are modelled by their   *)
(* handlers and by the settling of their requests.                         *)
(***************************************************************************)
EXTENDS Naturals, Sequences, FiniteSets, TLC

\* ------------------------------------------------------------------ bounds
MaxAttempts == 2
MaxMsgs == 2
MaxClock == 1
MaxDeltas == 4
MaxChunks == 3
MaxPlayClock == 1
FrameLen == 2
MaxGateFrames == 2

\* rms > 0.01, with samples in units of 0.01
Threshold == 1

Attempts == 1..MaxAttempts
NoRef == 0

ErrStart == "Kunne ikke starte sesjonen"
ErrLost == "Mistet kontakten med serveren. Sjekk internett eller prov igjen."

Max(x, y) == IF x >= y THEN x ELSE y
Min(x, y) == IF x <= y THEN x ELSE y

VARIABLES
  \* useState
  status, errorMsg, isMuted, volumeLevel, transcript,
  \* useRef
  audioContextRef, inputSourceRef, processorRef, streamRef,
  nextStartTimeRef, audioQueueRef, sessionPromiseRef, mountedRef,
  \* startSession invocations: how many were made, and for each its position
  \* and the isMuted value of the render whose closure it runs in
  attempts, call,
  \* the objects the attempts created
  ctx, stream, inputSource, processor, session,
  \* frames handed to sessionPromise.then(...) and not yet sent; chunks sent
  pendingSends, sent,
  \* onmessage invocations suspended at an await; AudioBufferSourceNodes made
  handlers, sources,
  \* number of onmessage invocations so far (arrival index, also Date.now())
  msgSeq,
  \* what the caller received through onEndCall / how the component ended
  ended, callResult,
  \* the transcript of the last committed render: what the handlers of the
  \* buttons on screen close over
  rendered,
  \* observation of the run (no effect on the program); undecodable is the
  \* set of chunks whose decodeAudioData rejected
  deltas, teardownIn, lastInt, late, gate, nFrames, undecodable,
  \* the frames (by capture number) whose send waits on each attempt's connect
  \* promise, in the order their .then callbacks were registered; the frames
  \* in the order sendRealtimeInput was called for them, each with whether it
  \* had waited
  waiting, sendLog,
  \* the evaluation screen (EvaluationResult.tsx): its evaluation state, and
  \* where its runEval effect stands, with the transcript it passed to the
  \* evaluation service
  evaluation, evalCall,
  \* the application (App.tsx 9-13); callTranscript is callResult above
  state, productContext, selectedPersona, callMode,
  \* the product form (UrlAnalyzer.tsx): its loading flag, its request to
  \* extractProductInfo, whether its catch branch showed the alert; the
  \* persona list of the persona screen (PersonaSelector.tsx)
  loading, analysis, alerted, personas,
  \* text chat (ChatSession): the Chat object of the mounted component (0:
  \* none mounted) and how many were created; its messages and loading flag;
  \* the sendMessage calls that have not settled; how many messages were sent
  chatRef, chats, messages, isLoading, requests, sends

uiVars == <<status, errorMsg, isMuted, volumeLevel, transcript>>
refVars == <<audioContextRef, inputSourceRef, processorRef, streamRef,
             sessionPromiseRef, mountedRef>>
playVars == <<nextStartTimeRef, audioQueueRef, handlers, sources>>
objVars == <<ctx, stream, inputSource, processor, session>>
sendVars == <<pendingSends, sent>>
orderVars == <<waiting, sendLog>>
evalVars == <<evaluation, evalCall>>
appVars == <<state, productContext, selectedPersona, callMode>>
setupVars == <<loading, analysis, alerted, personas>>
chatVars == <<chatRef, chats, messages, isLoading, requests, sends>>
screenVars == <<appVars, setupVars, chatVars>>
obsVars == <<deltas, teardownIn, lastInt, late, gate, nFrames, undecodable>>
vars == <<uiVars, refVars, playVars, objVars, sendVars, obsVars,
          attempts, call, msgSeq, ended, callResult, rendered, orderVars,
          evalVars, screenVars>>

\* ------------------------------------------------------------- React state
\* A state setter called after the component unmounted changes nothing:
\* the unmount effect (lines 195-198) is what clears mountedRef.
setState(old, new) == IF mountedRef THEN new ELSE old

\* ------------------------------------------------------------- transcript
\* (variant: the role of the last message is not compared)
updateTranscript_AnyRole(prev, role, text, now) ==
  IF Len(prev) > 0
  THEN [prev EXCEPT ![Len(prev)].text = @ \o text]
  ELSE Append(prev, [role |-> role, text |-> text, timestamp |-> now])

\* (variant: a role change starts the list again)
updateTranscript_DropsEarlier(prev, role, text, now) ==
  IF Len(prev) > 0 /\ prev[Len(prev)].role = role
  THEN [prev EXCEPT ![Len(prev)].text = @ \o text]
  ELSE <<[role |-> role, text |-> text, timestamp |-> now]>>

updateTranscript(prev, role, text, now) ==
  IF Len(prev) > 0 /\ prev[Len(prev)].role = role
  THEN [prev EXCEPT ![Len(prev)].text = @ \o text]
  ELSE Append(prev, [role |-> role, text |-> text, timestamp |-> now])

\* A message field is <<>> when absent and <<v>> when present with value v.
\* x?.text used as a condition: present and not the empty string.
truthyText(f) == f # <<>> /\ f[1] # ""

\* The two transcription fields of one server message (lines 116-121),
\* outputTranscription first.
applyTranscription(prev, msg, now) ==
  LET t1 == IF truthyText(msg.out)
            THEN updateTranscript(prev, "model", msg.out[1], now) ELSE prev
  IN IF truthyText(msg.inp) THEN updateTranscript(t1, "user", msg.inp[1], now)
     ELSE t1

\* The transcript deltas a message carries, in the order they are read.
msgDeltas(msg) ==
  (IF msg.out # <<>> THEN <<[role |-> "model", text |-> msg.out[1]]>> ELSE <<>>)
  \o (IF msg.inp # <<>> THEN <<[role |-> "user", text |-> msg.inp[1]]>> ELSE <<>>)

Msg(out, inp, audio, interrupted) ==
  [out |-> out, inp |-> inp, audio |-> audio, interrupted |-> interrupted]

\* ---------------------------------------------------------------- cleanup
Res == [stream |-> stream, processor |-> processor, inputSource |-> inputSource,
        ctx |-> ctx, processorRef |-> processorRef,
        audioContextRef |-> audioContextRef]

\* (variant: the context is closed but the ref is not cleared)
cleanup_KeepsContextRef(r) ==
  LET r1 == IF streamRef # NoRef
            THEN [r EXCEPT !.stream[streamRef] = "stopped"] ELSE r
      r2 == IF r1.processorRef # NoRef
            THEN [r1 EXCEPT !.processor[r1.processorRef] = "disconnected",
                            !.processorRef = NoRef]
            ELSE r1
      r3 == IF inputSourceRef # NoRef
            THEN [r2 EXCEPT !.inputSource[inputSourceRef] = "disconnected"]
            ELSE r2
  IN IF r3.audioContextRef # NoRef
     THEN [r3 EXCEPT !.ctx[r3.audioContextRef].state = "closed"]
     ELSE r3

\* cleanup works on the refs; it is written as a function of the resource
\* state so that handleHangup (cleanup, then the unmount effect's cleanup)
\* is one step.
cleanup(r) ==
  LET r1 == IF streamRef # NoRef
            THEN [r EXCEPT !.stream[streamRef] = "stopped"] ELSE r
      r2 == IF r1.processorRef # NoRef
            THEN [r1 EXCEPT !.processor[r1.processorRef] = "disconnected",
                            !.processorRef = NoRef]
            ELSE r1
      r3 == IF inputSourceRef # NoRef
            THEN [r2 EXCEPT !.inputSource[inputSourceRef] = "disconnected"]
            ELSE r2
  IN IF r3.audioContextRef # NoRef
     THEN [r3 EXCEPT !.ctx[r3.audioContextRef].state = "closed",
                     !.audioContextRef = NoRef]
     ELSE r3

\* cleanup completes without error from r: each ref it dereferences holds an
\* object on which the call succeeds.  getTracks/stop and disconnect succeed
\* on a stopped stream and on a disconnected node; close() fails on a
\* context that is already closed.
cleanupCompletes(r) ==
  /\ streamRef # NoRef => r.stream[streamRef] \in {"live", "stopped"}
  /\ r.processorRef # NoRef =>
       r.processor[r.processorRef] \in {"attached", "disconnected"}
  /\ inputSourceRef # NoRef =>
       r.inputSource[inputSourceRef] \in {"connected", "disconnected"}
  /\ r.audioContextRef # NoRef =>
       r.ctx[r.audioContextRef].state \in {"running", "suspended"}

SetRes(r) ==
  /\ stream' = r.stream
  /\ processor' = r.processor
  /\ inputSource' = r.inputSource
  /\ ctx' = r.ctx
  /\ processorRef' = r.processorRef
  /\ audioContextRef' = r.audioContextRef

\* ------------------------------------------------------------------- Init
\* A new CallInterface (useState / useRef initial values, lines 15-33); no
\* evaluation screen, no chat, no request of the product form.
CallInit ==
  /\ status = "idle" /\ errorMsg = "" /\ isMuted = FALSE /\ volumeLevel = 0
  /\ transcript = <<>>
  /\ audioContextRef = NoRef /\ inputSourceRef = NoRef /\ processorRef = NoRef
  /\ streamRef = NoRef /\ sessionPromiseRef = NoRef
  /\ nextStartTimeRef = 0 /\ audioQueueRef = {}
  /\ mountedRef = TRUE
  /\ attempts = 0
  /\ call = [a \in Attempts |-> [pc |-> "none", isMuted |-> FALSE]]
  /\ ctx = [a \in Attempts |-> [state |-> "none", currentTime |-> 0]]
  /\ stream = [a \in Attempts |-> "none"]
  /\ inputSource = [a \in Attempts |-> "none"]
  /\ processor = [a \in Attempts |-> "none"]
  /\ session = [a \in Attempts |-> "none"]
  /\ pendingSends = [a \in Attempts |-> 0]
  /\ sent = [a \in Attempts |-> 0]
  /\ handlers = {}
  /\ sources = <<>>
  /\ msgSeq = 0
  /\ ended = "no" /\ callResult = <<>>
  /\ rendered = <<>>
  /\ deltas = <<>>
  /\ teardownIn = "none"
  /\ lastInt = [n |-> 0, seq |-> 0, T |-> 0, fresh |-> FALSE]
  /\ late = FALSE
  /\ gate = [reached |-> FALSE, sumSq |-> 0, len |-> 0, passed |-> FALSE]
  /\ nFrames = 0
  /\ undecodable = {}
  /\ waiting = [a \in Attempts |-> <<>>] /\ sendLog = <<>>
  /\ evaluation = "null" /\ evalCall = [pc |-> "none", transcript |-> <<>>]
  /\ loading = FALSE /\ analysis = "none" /\ alerted = FALSE
  /\ chatRef = 0 /\ chats = 0 /\ messages = <<>> /\ isLoading = FALSE
  /\ requests = {} /\ sends = 0

\* The application shows the voice call screen: a product was analysed and
\* a persona selected (App.tsx 89-99).
Init ==
  /\ CallInit
  /\ state = "CALLING" /\ callMode = "VOICE"
  /\ productContext = "parsed" /\ selectedPersona = "persona"
  /\ personas = "unmounted"

\* The application starts (App.tsx 9-13).
InitApp ==
  /\ CallInit
  /\ state = "SETUP" /\ callMode = "VOICE"
  /\ productContext = "null" /\ selectedPersona = "null"
  /\ personas = "unmounted"


\* ----------------------------------------------------------- startSession
\* (variant: the message of the exception, without the fallback text)
errText_Raw(m) == m

\* Line 185: err.message || "Kunne ikke starte sesjonen".
errText(m) == IF m # "" THEN m ELSE ErrStart

\* Lines 50-62, up to the await of getUserMedia.  seen is the status of the
\* render whose closure runs; ctxState is what new AudioContext gives:
\* a running or a suspended context, or "throws".
startSession(seen, ctxState, m) ==
  LET a == attempts + 1 IN
  /\ seen \notin {"connecting", "connected"}
  /\ a \in Attempts
  /\ attempts' = a
  /\ IF ctxState = "throws"
     THEN /\ status' = setState(status, "error")
          /\ errorMsg' = setState(errorMsg, errText(m))
          /\ call' = [call EXCEPT ![a] = [pc |-> "failed", isMuted |-> isMuted]]
          /\ UNCHANGED <<ctx, audioContextRef>>
     ELSE /\ status' = setState(status, "connecting")
          /\ errorMsg' = setState(errorMsg, "")
          /\ call' = [call EXCEPT ![a] = [pc |-> "getUserMedia", isMuted |-> isMuted]]
          /\ ctx' = [ctx EXCEPT ![a] = [state |-> ctxState, currentTime |-> 0]]
          /\ audioContextRef' = a
  /\ UNCHANGED <<isMuted, volumeLevel, transcript, inputSourceRef, processorRef,
                 streamRef, sessionPromiseRef, mountedRef, playVars, stream,
                 inputSource, processor, session, sendVars, obsVars, msgSeq,
                 ended, callResult, evalVars, screenVars, rendered, orderVars>>

\* The "Start Samtale" button, rendered while status is idle.
StartClick(ctxState, m) ==
  /\ mountedRef /\ status = "idle"
  /\ startSession(status, ctxState, m)

\* The "Prov Igjen" button of the error screen: setStatus('idle') and then
\* startSession() of the render that shows the error screen.
Retry(ctxState, m) ==
  /\ mountedRef /\ status = "error"
  /\ startSession("error", ctxState, m)

\* Lines 63-181: getUserMedia resolved; the stream is stored and
\* ai.live.connect(config) is called, its promise stored unawaited.
getUserMediaResolved(a) ==
  /\ call[a].pc = "getUserMedia"
  /\ stream' = [stream EXCEPT ![a] = "live"]
  /\ streamRef' = a
  /\ session' = [session EXCEPT ![a] = "connecting"]
  /\ sessionPromiseRef' = a
  /\ call' = [call EXCEPT ![a].pc = "done"]
  /\ UNCHANGED <<uiVars, audioContextRef, inputSourceRef, processorRef, mountedRef,
                 playVars, ctx, inputSource, processor, sendVars, obsVars,
                 attempts, msgSeq, ended, callResult, evalVars, screenVars, rendered, orderVars>>

\* Lines 182-186: getUserMedia rejected, the catch block runs.
getUserMediaRejected(a, m) ==
  /\ call[a].pc = "getUserMedia"
  /\ call' = [call EXCEPT ![a].pc = "failed"]
  /\ status' = setState(status, "error")
  /\ errorMsg' = setState(errorMsg, errText(m))
  /\ UNCHANGED <<isMuted, volumeLevel, transcript, refVars, playVars, objVars,
                 sendVars, obsVars, attempts, msgSeq, ended, callResult, evalVars, screenVars, rendered, orderVars>>

\* ----------------------------------------------------------- capture setup
\* setupAudioInput(stream) of attempt a (lines 201-240): the processor's
\* onaudioprocess closes over the isMuted of the render that ran startSession.
setupAudioInput(r, a) ==
  IF r.audioContextRef = NoRef THEN r
  ELSE [r EXCEPT !.processor[a] = "attached", !.inputSource[a] = "connected",
                 !.processorRef = a]

\* ------------------------------------------------------ transport callbacks
\* (variant: the callbacks of a promise run last registered first)
resolve_LastFirst(log, q) ==
  log \o [k \in 1..Len(q) |-> q[Len(q) + 1 - k]]

\* The connect promise resolves: its .then callbacks (224-230) run in the
\* order they were registered, each sending its frame.
resolve(log, q) == log \o q

\* onopen of the session of attempt a; the connect promise resolves with it,
\* and the sends that waited on the promise go out.
onopen(a) ==
  /\ session[a] = "connecting"
  /\ session' = [session EXCEPT ![a] = "open"]
  /\ sent' = [sent EXCEPT ![a] = @ + pendingSends[a]]
  /\ pendingSends' = [pendingSends EXCEPT ![a] = 0]
  /\ sendLog' = resolve(sendLog, waiting[a])
  /\ waiting' = [waiting EXCEPT ![a] = <<>>]
  /\ IF mountedRef
     THEN /\ status' = "connected"
          /\ LET r == setupAudioInput(Res, a) IN
             /\ processor' = r.processor
             /\ inputSource' = r.inputSource
             /\ processorRef' = r.processorRef
          /\ inputSourceRef' = IF audioContextRef = NoRef THEN inputSourceRef ELSE a
     ELSE UNCHANGED <<status, processor, inputSource, processorRef, inputSourceRef>>
  /\ UNCHANGED <<errorMsg, isMuted, volumeLevel, transcript, audioContextRef,
                 streamRef, sessionPromiseRef, mountedRef, playVars, ctx, stream,
                 obsVars, attempts, call, msgSeq, ended, callResult, evalVars, screenVars, rendered>>

\* (variant: the handler starts connecting again by itself)
onerror_Reconnect(a, closes) ==
  /\ session[a] \in {"connecting", "open"}
  /\ session' = [session EXCEPT ![a] = "connecting"]
  /\ status' = setState(status, "connecting")
  /\ errorMsg' = setState(errorMsg, "")
  /\ UNCHANGED <<isMuted, volumeLevel, transcript, refVars, playVars, ctx, stream,
                 inputSource, processor, sendVars, obsVars, attempts, call,
                 msgSeq, ended, callResult, evalVars, screenVars, rendered, orderVars>>

\* onerror of the session of attempt a (lines 171-177).  The transport
\* reports an error; closes is whether the connection is gone with it.
onerror(a, closes) ==
  /\ session[a] \in {"connecting", "open"}
  /\ session' = [session EXCEPT ![a] =
                   IF ~closes THEN @ ELSE IF @ = "open" THEN "closed" ELSE "failed"]
  /\ pendingSends' = [pendingSends EXCEPT ![a] = IF closes THEN 0 ELSE @]
  /\ waiting' = [waiting EXCEPT ![a] = IF closes THEN <<>> ELSE @]
  /\ status' = setState(status, "error")
  /\ errorMsg' = setState(errorMsg, ErrLost)
  /\ UNCHANGED <<isMuted, volumeLevel, transcript, refVars, playVars, ctx, stream,
                 inputSource, processor, sent, obsVars, attempts, call, msgSeq,
                 ended, callResult, evalVars, screenVars, rendered, sendLog>>

\* onclose (lines 168-170): the server closed the stream; only logged.
onclose(a) ==
  /\ session[a] = "open"
  /\ session' = [session EXCEPT ![a] = "closed"]
  /\ UNCHANGED <<uiVars, refVars, playVars, ctx, stream, inputSource, processor,
                 sendVars, obsVars, attempts, call, msgSeq, ended, callResult, evalVars, screenVars, rendered, orderVars>>

\* The promise of ai.live.connect rejects (line 181: nothing awaits it).
connectRejected(a) ==
  /\ session[a] = "connecting"
  /\ session' = [session EXCEPT ![a] = "failed"]
  /\ pendingSends' = [pendingSends EXCEPT ![a] = 0]
  /\ waiting' = [waiting EXCEPT ![a] = <<>>]
  /\ UNCHANGED <<uiVars, refVars, playVars, ctx, stream, inputSource, processor,
                 sent, obsVars, attempts, call, msgSeq, ended, callResult, evalVars, screenVars,
                 rendered, sendLog>>

\* ---------------------------------------------------------------- teardown
\* handleHangup (lines 263-266): cleanup, then onEndCall(transcript); the
\* application leaves CALLING (App.tsx 29-32), the component unmounts and
\* the effect's return (lines 195-198) runs cleanup again.  The evaluation
\* screen is mounted with the transcript (App.tsx 110-118); its effect has
\* yet to run.
handleHangup ==
  /\ mountedRef /\ status = "connected"
  /\ SetRes(cleanup(cleanup(Res)))
  /\ callResult' = rendered
  /\ evaluation' = "null"
  /\ evalCall' = [pc |-> "mounted", transcript |-> <<>>]
  /\ state' = "EVALUATION"
  /\ mountedRef' = FALSE
  /\ ended' = "hangup"
  /\ teardownIn' = status
  /\ UNCHANGED <<uiVars, inputSourceRef, streamRef, sessionPromiseRef, playVars,
                 session, sendVars, deltas, lastInt, late, gate, nFrames, undecodable,
                 attempts, call, msgSeq, rendered, orderVars, productContext,
                 selectedPersona, callMode, setupVars, chatVars>>

\* The effect of the evaluation screen (EvaluationResult.tsx 16-23) runs
\* runEval: with an empty transcript it returns at once; otherwise it calls
\* evaluateSession(transcript, ...) and awaits it (gemini.ts 110-136).
runEval ==
  /\ evalCall.pc = "mounted"
  /\ evalCall' = IF Len(callResult) = 0
                 THEN [pc |-> "returned", transcript |-> <<>>]
                 ELSE [pc |-> "awaiting", transcript |-> callResult]
  /\ UNCHANGED <<uiVars, refVars, playVars, objVars, sendVars, obsVars,
                 attempts, call, msgSeq, ended, callResult, rendered, orderVars,
                 evaluation, screenVars>>

\* evaluateSession settles (gemini.ts 136-159): with the parsed metrics, or,
\* when the request failed or had no text, with the all-zero metrics of the
\* catch block; runEval stores them (EvaluationResult.tsx 20) and the screen
\* shows the result instead of the spinner (25).
evaluateSession(ok) ==
  /\ evalCall.pc = "awaiting"
  /\ evaluation' = IF ok THEN "metrics" ELSE "fallback"
  /\ evalCall' = [evalCall EXCEPT !.pc = "done"]
  /\ UNCHANGED <<uiVars, refVars, playVars, objVars, sendVars, obsVars,
                 attempts, call, msgSeq, ended, callResult, rendered, orderVars,
                 screenVars>>

\* React commits the setTranscript updates that onmessage queued (36-48):
\* the component renders again and the buttons get the handlers of this
\* render.  Updates queued from a transport callback are committed in a
\* later task than the callback.
render ==
  /\ mountedRef /\ rendered # transcript
  /\ rendered' = transcript
  /\ UNCHANGED <<uiVars, refVars, playVars, objVars, sendVars, obsVars,
                 attempts, call, msgSeq, ended, callResult, evalVars, screenVars, orderVars>>

\* ChatSession mounts (src/unnamed/part_000 lines 14-59): its effect creates
\* the Chat object and start() sets the loading flag and sends the
\* greeting request.
mountChat ==
  /\ chats' = chats + 1
  /\ chatRef' = chats + 1
  /\ messages' = <<>>
  /\ sends' = 0
  /\ isLoading' = TRUE
  /\ requests' = requests \cup {[chat |-> chats + 1, n |-> 0]}

\* ChatSession unmounts: its state is dropped; the effect has no cleanup,
\* a pending request stays pending.
unmountChat ==
  /\ chatRef' = 0
  /\ messages' = <<>> /\ isLoading' = FALSE /\ sends' = 0
  /\ UNCHANGED <<chats, requests>>

\* The component unmounts without a hangup (the Tale/Chat switch of
\* App.tsx 52-63 replaces it with ChatSession): lines 195-198.
unmount ==
  /\ mountedRef
  /\ SetRes(cleanup(Res))
  /\ mountedRef' = FALSE
  /\ ended' = "unmount"
  /\ teardownIn' = status
  /\ callMode' = "TEXT"
  /\ mountChat
  /\ UNCHANGED <<uiVars, inputSourceRef, streamRef, sessionPromiseRef, playVars,
                 session, sendVars, deltas, lastInt, late, gate, nFrames, undecodable,
                 attempts, call, msgSeq, callResult, evalVars, rendered, orderVars,
                 state, productContext, selectedPersona, setupVars>>

\* "Ga tilbake" on the error screen: onCancel, the application returns to
\* persona selection (App.tsx 97), the component unmounts and the persona
\* screen mounts and loads its list (PersonaSelector.tsx 15-26).
cancel ==
  /\ mountedRef /\ status = "error"
  /\ SetRes(cleanup(Res))
  /\ mountedRef' = FALSE
  /\ ended' = "cancel"
  /\ teardownIn' = status
  /\ state' = "PERSONA_SELECTION"
  /\ personas' = "loading"
  /\ UNCHANGED <<uiVars, inputSourceRef, streamRef, sessionPromiseRef, playVars,
                 session, sendVars, deltas, lastInt, late, gate, nFrames, undecodable,
                 attempts, call, msgSeq, callResult, evalVars, rendered, orderVars,
                 productContext, selectedPersona, callMode, loading, analysis,
                 alerted, chatVars>>

\* (variant: muting also disconnects the capture processor)
toggleMute_StopsCapture ==
  /\ mountedRef /\ status = "connected"
  /\ isMuted' = ~isMuted
  /\ processor' = [a \in Attempts |->
                     IF a = processorRef THEN "disconnected" ELSE processor[a]]
  /\ UNCHANGED <<status, errorMsg, volumeLevel, transcript, refVars, playVars,
                 ctx, stream, inputSource, session, sendVars, obsVars, attempts,
                 call, msgSeq, ended, callResult, evalVars, screenVars, rendered, orderVars>>

\* toggleMute (lines 259-261).
toggleMute ==
  /\ mountedRef /\ status = "connected"
  /\ isMuted' = ~isMuted
  /\ UNCHANGED <<status, errorMsg, volumeLevel, transcript, refVars, playVars,
                 objVars, sendVars, obsVars, attempts, call, msgSeq, ended,
                 callResult, evalVars, screenVars, rendered, orderVars>>


\* ---------------------------------------------------------------- playback
Play == [ns |-> nextStartTimeRef, queue |-> audioQueueRef, sources |-> sources]

SetPlay(p) ==
  /\ nextStartTimeRef' = p.ns
  /\ audioQueueRef' = p.queue
  /\ sources' = p.sources

\* (variant: the cursor is left where it was)
interruption_KeepCursor(p) ==
  [ns |-> p.ns,
   queue |-> {},
   sources |-> [i \in 1..Len(p.sources) |->
                  IF i \in p.queue /\ p.sources[i].state = "scheduled"
                  THEN [p.sources[i] EXCEPT !.state = "stopped"]
                  ELSE p.sources[i]]]

\* Lines 157-166: stop every source of the queue, clear it, reset the cursor
\* to the current time of the context audioContextRef holds.
interruption(p) ==
  [ns |-> IF audioContextRef # NoRef THEN ctx[audioContextRef].currentTime
          ELSE p.ns,
   queue |-> {},
   sources |-> [i \in 1..Len(p.sources) |->
                  IF i \in p.queue /\ p.sources[i].state = "scheduled"
                  THEN [p.sources[i] EXCEPT !.state = "stopped"]
                  ELSE p.sources[i]]]

\* (variant: the cursor follows the clock alone)
cursorAt_Clock(ns, now) == now

\* Line 132.
cursorAt(ns, now) == Max(ns, now)

\* Lines 140-150: a source for the decoded buffer is started at the cursor,
\* the cursor advances by the buffer's duration, the source joins the queue.
schedule(p, h, dur) ==
  [ns |-> p.ns + dur,
   queue |-> p.queue \cup {Len(p.sources) + 1},
   sources |-> Append(p.sources,
                 [chunk |-> h.id, ctx |-> h.ctx, start |-> p.ns, dur |-> dur,
                  at |-> ctx[h.ctx].currentTime, state |-> "scheduled",
                  epoch |-> lastInt.n, onTime |-> ~late,
                  first |-> lastInt.fresh])]

noteInterruption(id) ==
  [n |-> lastInt.n + 1, seq |-> id,
   T |-> IF audioContextRef # NoRef THEN ctx[audioContextRef].currentTime
         ELSE nextStartTimeRef,
   fresh |-> TRUE]

\* onmessage of the session of attempt a (lines 112-167), up to its first
\* await or, when it awaits nothing, to its end.
onmessage(a, msg) ==
  /\ session[a] = "open"
  /\ msgSeq' = msgSeq + 1
  /\ IF ~mountedRef
     THEN UNCHANGED <<transcript, deltas, playVars, lastInt, late>>
     ELSE
       /\ transcript' = applyTranscription(transcript, msg, msgSeq + 1)
       /\ deltas' = deltas \o msgDeltas(msg)
       /\ IF msg.audio /\ audioContextRef # NoRef
          THEN LET c == audioContextRef
                   h == [id |-> msgSeq + 1, ctx |-> c,
                         interrupted |-> msg.interrupted]
               IN IF ctx[c].state = "suspended"
                  THEN /\ handlers' = handlers \cup {h @@ [pc |-> "resume"]}
                       /\ UNCHANGED <<nextStartTimeRef, audioQueueRef, sources,
                                      lastInt, late>>
                  ELSE /\ handlers' = handlers \cup {h @@ [pc |-> "decode"]}
                       /\ nextStartTimeRef' =
                            cursorAt(nextStartTimeRef, ctx[c].currentTime)
                       /\ late' = (late \/ ctx[c].currentTime > nextStartTimeRef)
                       /\ UNCHANGED <<audioQueueRef, sources, lastInt>>
          ELSE IF msg.interrupted
               THEN /\ SetPlay(interruption(Play))
                    /\ lastInt' = noteInterruption(msgSeq + 1)
                    /\ late' = FALSE
                    /\ UNCHANGED handlers
               ELSE UNCHANGED <<playVars, lastInt, late>>
  /\ UNCHANGED <<status, errorMsg, isMuted, volumeLevel, refVars, objVars,
                 sendVars, teardownIn, gate, nFrames, undecodable, attempts, call, ended,
                 callResult, evalVars, screenVars, rendered, orderVars>>

\* Line 129: ctx.resume() settled (a closed context rejects, which is caught);
\* the handler goes on to line 132 and awaits decodeAudioData.
resumed(h) ==
  /\ h \in handlers /\ h.pc = "resume"
  /\ ctx' = [ctx EXCEPT ![h.ctx].state = IF @ = "suspended" THEN "running" ELSE @]
  /\ nextStartTimeRef' = cursorAt(nextStartTimeRef, ctx[h.ctx].currentTime)
  /\ late' = (late \/ ctx[h.ctx].currentTime > nextStartTimeRef)
  /\ handlers' = (handlers \ {h}) \cup {[h EXCEPT !.pc = "decode"]}
  /\ UNCHANGED <<uiVars, refVars, audioQueueRef, sources, stream, inputSource,
                 processor, session, sendVars, deltas, teardownIn, lastInt,
                 gate, nFrames, undecodable, attempts, call, msgSeq, ended, callResult, evalVars, screenVars, rendered, orderVars>>

\* Lines 135-150 and 157-166: decodeAudioData resolved with a buffer of
\* duration dur; the handler runs to its end.
decoded(h, dur) ==
  /\ h \in handlers /\ h.pc = "decode"
  /\ handlers' = handlers \ {h}
  /\ LET p == schedule(Play, h, dur) IN
     IF h.interrupted
     THEN SetPlay(interruption(p)) /\ lastInt' = noteInterruption(h.id)
     ELSE SetPlay(p) /\ lastInt' = [lastInt EXCEPT !.fresh = FALSE]
  /\ late' = FALSE
  /\ UNCHANGED <<uiVars, refVars, objVars, sendVars, deltas, teardownIn, gate,
                 nFrames, undecodable, attempts, call, msgSeq, ended, callResult, evalVars, screenVars, rendered, orderVars>>

\* (variant: the failure is reported to the controller like a transport error)
decodeFailed_Escapes(h) ==
  /\ h \in handlers /\ h.pc = "decode"
  /\ handlers' = handlers \ {h}
  /\ undecodable' = undecodable \cup {h.id}
  /\ status' = setState(status, "error")
  /\ errorMsg' = setState(errorMsg, ErrLost)
  /\ UNCHANGED <<isMuted, volumeLevel, transcript, refVars, nextStartTimeRef,
                 audioQueueRef, sources, objVars, sendVars, deltas, teardownIn,
                 lastInt, late, gate, nFrames, attempts, call, msgSeq, ended,
                 callResult, evalVars, screenVars, rendered, orderVars>>

\* Lines 151-153 and 157-166: decodeAudioData rejected; logged, nothing is
\* scheduled, the handler runs to its end.
decodeFailed(h) ==
  /\ h \in handlers /\ h.pc = "decode"
  /\ handlers' = handlers \ {h}
  /\ undecodable' = undecodable \cup {h.id}
  /\ IF h.interrupted
     THEN SetPlay(interruption(Play)) /\ lastInt' = noteInterruption(h.id) /\ late' = FALSE
     ELSE UNCHANGED <<nextStartTimeRef, audioQueueRef, sources, lastInt, late>>
  /\ UNCHANGED <<uiVars, refVars, objVars, sendVars, deltas, teardownIn, gate,
                 nFrames, attempts, call, msgSeq, ended, callResult, evalVars, screenVars, rendered, orderVars>>

\* (variant: the ended source is not taken out of the set)
onended_KeepsInSet(i) ==
  /\ i \in 1..Len(sources)
  /\ sources[i].state = "scheduled"
  /\ ctx[sources[i].ctx].state = "running"
  /\ ctx[sources[i].ctx].currentTime >=
       Max(sources[i].start, sources[i].at) + sources[i].dur
  /\ sources' = [sources EXCEPT ![i].state = "ended"]
  /\ UNCHANGED <<uiVars, refVars, nextStartTimeRef, audioQueueRef, handlers,
                 objVars, sendVars, obsVars, attempts, call, msgSeq, ended,
                 callResult, evalVars, screenVars, rendered, orderVars>>

\* source.onended (lines 144-146): source i played to its end.  A source
\* started in the past begins at the time of the start call.
onended(i) ==
  /\ i \in 1..Len(sources)
  /\ sources[i].state = "scheduled"
  /\ ctx[sources[i].ctx].state = "running"
  /\ ctx[sources[i].ctx].currentTime >=
       Max(sources[i].start, sources[i].at) + sources[i].dur
  /\ sources' = [sources EXCEPT ![i].state = "ended"]
  /\ audioQueueRef' = audioQueueRef \ {i}
  /\ UNCHANGED <<uiVars, refVars, nextStartTimeRef, handlers, objVars, sendVars,
                 obsVars, attempts, call, msgSeq, ended, callResult, evalVars, screenVars, rendered, orderVars>>

\* The clock of a running AudioContext advances.
tick(c, bound) ==
  /\ ctx[c].state = "running"
  /\ ctx[c].currentTime < bound
  /\ ctx' = [ctx EXCEPT ![c].currentTime = @ + 1]
  /\ UNCHANGED <<uiVars, refVars, playVars, stream, inputSource, processor,
                 session, sendVars, obsVars, attempts, call, msgSeq, ended,
                 callResult, evalVars, screenVars, rendered, orderVars>>

\* ----------------------------------------------------------------- capture
RECURSIVE SumSq(_)
SumSq(frame) ==
  IF frame = <<>> THEN 0 ELSE Head(frame) * Head(frame) + SumSq(Tail(frame))

MaxSample == 50
Samples == {0, 1, 2, MaxSample}
Silence == [i \in 1..FrameLen |-> 0]

\* floor(sqrt(n)), for n up to MaxSample^2
ISqrt(n) == CHOOSE k \in 0..MaxSample : k * k <= n /\ (k + 1) * (k + 1) > n

\* Lines 214-216, in units of 0.01, rounded down.
rms(frame) == ISqrt(SumSq(frame) \div Len(frame))

\* (variant: the boundary is inclusive)
vad_Inclusive(frame) == SumSq(frame) >= Threshold * Threshold * Len(frame)

\* Line 221: rms > 0.01, that is sum / length > 0.01^2.
vad(frame) == SumSq(frame) > Threshold * Threshold * Len(frame)

\* Lines 223-231: session.sendRealtimeInput once the stored promise resolves.
send(sv, s) ==
  IF s = NoRef THEN sv
  ELSE IF session[s] = "connecting"
       THEN [sv EXCEPT !.pendingSends[s] = @ + 1]
       ELSE IF session[s] = "open" THEN [sv EXCEPT !.sent[s] = @ + 1] ELSE sv

\* The same for the order: frame number id waits on the promise of attempt s
\* or is sent at once.
sendOrder(ov, s, id) ==
  IF s = NoRef THEN ov
  ELSE IF session[s] = "connecting"
       THEN [ov EXCEPT !.waiting[s] = Append(@, [frame |-> id, waited |-> TRUE])]
       ELSE IF session[s] = "open"
            THEN [ov EXCEPT !.sendLog = Append(@, [frame |-> id, waited |-> FALSE])]
            ELSE ov

\* processor.onaudioprocess of the processor of attempt p (lines 208-233).
onaudioprocess(p, frame) ==
  /\ processor[p] = "attached"
  /\ stream[p] # "live" => frame = Silence
  /\ nFrames' = nFrames + 1
  /\ IF call[p].isMuted
     THEN /\ gate' = [reached |-> FALSE, sumSq |-> SumSq(frame),
                      len |-> Len(frame), passed |-> FALSE]
          /\ UNCHANGED <<volumeLevel, sendVars, orderVars>>
     ELSE /\ volumeLevel' = setState(volumeLevel, Min(100, rms(frame) * 5))
          /\ gate' = [reached |-> TRUE, sumSq |-> SumSq(frame),
                      len |-> Len(frame), passed |-> vad(frame)]
          /\ LET sv == IF vad(frame)
                       THEN send([pendingSends |-> pendingSends, sent |-> sent],
                                 sessionPromiseRef)
                       ELSE [pendingSends |-> pendingSends, sent |-> sent]
             IN pendingSends' = sv.pendingSends /\ sent' = sv.sent
          /\ LET ov == IF vad(frame)
                       THEN sendOrder([waiting |-> waiting, sendLog |-> sendLog],
                                      sessionPromiseRef, nFrames + 1)
                       ELSE [waiting |-> waiting, sendLog |-> sendLog]
             IN waiting' = ov.waiting /\ sendLog' = ov.sendLog
  /\ UNCHANGED <<status, errorMsg, isMuted, transcript, refVars, playVars,
                 objVars, deltas, teardownIn, lastInt, late, undecodable, attempts, call,
                 msgSeq, ended, callResult, evalVars, screenVars, rendered>>


\* ------------------------------------------------------------ application
\* The variables of the CallInterface instance followed by the actions above.
callVars == <<uiVars, refVars, playVars, objVars, sendVars, obsVars, attempts,
              call, msgSeq, ended, rendered, orderVars>>

\* What ai.models.generateContent gives a service function: a response
\* whose text parses, a response without text, a response whose text
\* JSON.parse rejects, or a rejected request.
Outcomes == {"text", "noText", "badJson", "rejected"}

Resolved(v) == [settled |-> "resolved", value |-> v]
Rejected == [settled |-> "rejected", value |-> "error"]

\* (variant: the catch block passes the exception on)
extractProductInfo_Rethrows(o) ==
  IF o = "text" THEN Resolved("parsed") ELSE Rejected

\* extractProductInfo (gemini.ts 24-56): the request, the test of
\* response.text and JSON.parse stand inside the try; its catch returns the
\* placeholder product.
extractProductInfo(o) ==
  LET try == IF o = "rejected" THEN "throw"
             ELSE IF o = "noText" THEN "throw"
             ELSE IF o = "badJson" THEN "throw"
             ELSE "parsed"
  IN IF try = "throw" THEN Resolved("Ukjent Bedrift") ELSE Resolved(try)

\* generatePersonas (gemini.ts 72-108): no text returns [], the catch
\* returns [].
generatePersonas(o) ==
  LET try == IF o = "rejected" THEN "throw"
             ELSE IF o = "noText" THEN "empty"
             ELSE IF o = "badJson" THEN "throw"
             ELSE "some"
  IN IF try = "throw" THEN Resolved("empty") ELSE Resolved(try)

\* UrlAnalyzer.handleSubmit (lines 14-18), up to the await; the submit
\* button is disabled while loading (line 56).
handleSubmit ==
  /\ state = "SETUP" /\ ~loading
  /\ loading' = TRUE
  /\ analysis' = "pending"
  /\ UNCHANGED <<callVars, callResult, evalVars, appVars, alerted, personas,
                 chatVars>>

\* UrlAnalyzer.handleSubmit after the await (lines 18-24): onComplete is
\* App.handleProductAnalyzed (App.tsx 15-18), which shows the persona screen;
\* a rejection shows the alert.  PersonaSelector mounts and starts load().
handleSubmitSettled(o) ==
  /\ analysis = "pending"
  /\ analysis' = "none"
  /\ loading' = FALSE
  /\ LET r == extractProductInfo(o) IN
     IF r.settled = "resolved"
     THEN /\ productContext' = r.value
          /\ state' = "PERSONA_SELECTION"
          /\ personas' = "loading"
          /\ UNCHANGED alerted
     ELSE /\ alerted' = TRUE
          /\ UNCHANGED <<productContext, state, personas>>
  /\ UNCHANGED <<callVars, callResult, evalVars, selectedPersona, callMode,
                 chatVars>>

\* PersonaSelector's load() after its await (lines 17-22); a rejection
\* leaves the spinner on screen.
load(o) ==
  /\ state = "PERSONA_SELECTION" /\ personas = "loading"
  /\ LET r == generatePersonas(o) IN
     personas' = IF r.settled = "resolved" THEN r.value ELSE "failed"
  /\ UNCHANGED <<callVars, callResult, evalVars, appVars, loading, analysis,
                 alerted, chatVars>>

\* (variant: the clicked persona is not stored)
handlePersonaSelected_NoPersona ==
  /\ state = "PERSONA_SELECTION" /\ personas = "some"
  /\ state' = "CALLING"
  /\ personas' = "unmounted"
  /\ IF callMode = "TEXT" THEN mountChat ELSE UNCHANGED chatVars
  /\ UNCHANGED <<callVars, callResult, evalVars, productContext, callMode,
                 loading, analysis, alerted, selectedPersona>>

\* A persona card is clicked (PersonaSelector.tsx 49-52):
\* App.handlePersonaSelected (App.tsx 20-26); the call screen of the current
\* mode mounts.
handlePersonaSelected ==
  /\ state = "PERSONA_SELECTION" /\ personas = "some"
  /\ selectedPersona' = "persona"
  /\ state' = "CALLING"
  /\ personas' = "unmounted"
  /\ IF callMode = "TEXT" THEN mountChat ELSE UNCHANGED chatVars
  /\ UNCHANGED <<callVars, callResult, evalVars, productContext, callMode,
                 loading, analysis, alerted>>

\* "Tilbake" on the persona screen (PersonaSelector.tsx 40, App.tsx 85),
\* shown once the list is loaded.
onBack ==
  /\ state = "PERSONA_SELECTION" /\ personas \in {"some", "empty"}
  /\ state' = "SETUP"
  /\ personas' = "unmounted"
  /\ UNCHANGED <<callVars, callResult, evalVars, productContext,
                 selectedPersona, callMode, loading, analysis, alerted,
                 chatVars>>

\* The Tale/Chat buttons (App.tsx 52-63), shown while CALLING.  The voice
\* component this mounts or replaces is not followed here.
setCallMode(m) ==
  /\ state = "CALLING"
  /\ callMode' = m
  /\ IF m = callMode THEN UNCHANGED chatVars
     ELSE IF m = "TEXT" THEN mountChat ELSE unmountChat
  /\ UNCHANGED <<callVars, callResult, evalVars, state, productContext,
                 selectedPersona, setupVars>>

\* App.handleEndCall (App.tsx 29-32), called by the end button of the call
\* screen with its transcript; the evaluation screen mounts.
handleEndCall(t) ==
  /\ state = "CALLING"
  /\ callResult' = t
  /\ state' = "EVALUATION"
  /\ evaluation' = "null"
  /\ evalCall' = [pc |-> "mounted", transcript |-> <<>>]
  /\ IF chatRef # 0 THEN unmountChat ELSE UNCHANGED chatVars
  /\ UNCHANGED <<callVars, productContext, selectedPersona, callMode,
                 setupVars>>

\* onCancel of the call screen (App.tsx 97), from the error view of a voice
\* call.
onCancel ==
  /\ state = "CALLING" /\ callMode = "VOICE"
  /\ state' = "PERSONA_SELECTION"
  /\ personas' = "loading"
  /\ UNCHANGED <<callVars, callResult, evalVars, productContext,
                 selectedPersona, callMode, loading, analysis, alerted,
                 chatVars>>

\* App.handleRestart (App.tsx 34-38), from the button of the result view
\* (EvaluationResult.tsx 128).
handleRestart ==
  /\ state = "EVALUATION" /\ evaluation # "null"
  /\ callResult' = <<>>
  /\ selectedPersona' = "null"
  /\ state' = "PERSONA_SELECTION"
  /\ personas' = "loading"
  /\ evaluation' = "null"
  /\ evalCall' = [pc |-> "none", transcript |-> <<>>]
  /\ UNCHANGED <<callVars, productContext, callMode, loading, analysis,
                 alerted, chatVars>>

\* ------------------------------------------------------------------- chat
\* ChatSession.handleSend (lines 61-68), up to the await, for a non-empty
\* input.
handleSend ==
  /\ chatRef # 0 /\ ~isLoading
  /\ sends' = sends + 1
  /\ messages' = Append(messages,
                   [role |-> "user", text |-> "Hei", timestamp |-> sends + 1])
  /\ isLoading' = TRUE
  /\ requests' = requests \cup {[chat |-> chatRef, n |-> sends + 1]}
  /\ UNCHANGED <<callVars, callResult, evalVars, appVars, setupVars, chatRef,
                 chats>>

\* chat.sendMessage settles for request r: start() after its await (lines
\* 50-56) for the greeting (n = 0), handleSend after its await (lines 70-79)
\* otherwise.  The setters of an unmounted component change nothing.
sendMessageSettled(r, o) ==
  /\ r \in requests
  /\ requests' = requests \ {r}
  /\ IF r.chat = chatRef
     THEN /\ isLoading' = FALSE
          /\ messages' =
               IF o # "text" THEN messages
               ELSE IF r.n = 0
               THEN <<[role |-> "model", text |-> "Hei", timestamp |-> 0]>>
               ELSE Append(messages,
                      [role |-> "model", text |-> "Svar", timestamp |-> r.n])
     ELSE UNCHANGED <<messages, isLoading>>
  /\ UNCHANGED <<callVars, callResult, evalVars, appVars, setupVars, chatRef,
                 chats, sends>>

\* "Avslutt Samtale" of the chat (line 99): onEndCall(messages).
endChat ==
  /\ chatRef # 0
  /\ handleEndCall(messages)

\* ------------------------------------------------------------ environment
CtxStates == {"running", "suspended", "throws"}
ErrMessages == {"", "NotAllowedError"}
Durations == {1, 2}
Loud == [i \in 1..FrameLen |-> MaxSample]

\* The call's life cycle with a small load: a transcript delta, an audio
\* chunk, an interruption; a silent and a loud frame.
LifeMsgs == {Msg(<<"Hei">>, <<>>, FALSE, FALSE), Msg(<<>>, <<>>, TRUE, FALSE),
             Msg(<<>>, <<>>, FALSE, TRUE)}

Next ==
  \/ \E c \in CtxStates, m \in ErrMessages : StartClick(c, m)
  \/ \E c \in CtxStates, m \in ErrMessages : Retry(c, m)
  \/ \E a \in Attempts : getUserMediaResolved(a)
  \/ \E a \in Attempts, m \in ErrMessages : getUserMediaRejected(a, m)
  \/ \E a \in Attempts : onopen(a)
  \/ \E a \in Attempts, closes \in BOOLEAN : onerror(a, closes)
  \/ \E a \in Attempts : onclose(a)
  \/ \E a \in Attempts : connectRejected(a)
  \/ \E a \in Attempts, msg \in LifeMsgs : msgSeq < MaxMsgs /\ onmessage(a, msg)
  \/ \E h \in handlers : resumed(h)
  \/ \E h \in handlers : decoded(h, 1)
  \/ \E h \in handlers : decodeFailed(h)
  \/ \E i \in 1..Len(sources) : onended(i)
  \/ \E c \in Attempts : tick(c, MaxClock)
  \/ render
  \/ handleHangup
  \/ unmount
  \/ cancel

Spec == Init /\ [][Next]_vars


\* The transcript assembler under load: a call that connects, then deltas of
\* both roles (also with empty text, also two in one message), audio chunks
\* and interruptions in any order.
TranscriptMsgs ==
  {Msg(<<t>>, <<>>, FALSE, FALSE) : t \in {"", "Hei", " der"}}
  \cup {Msg(<<>>, <<t>>, FALSE, FALSE) : t \in {"", "stopp"}}
  \cup {Msg(<<"Hei">>, <<"stopp">>, FALSE, FALSE), Msg(<<>>, <<>>, TRUE, FALSE),
        Msg(<<>>, <<>>, FALSE, TRUE)}

NextTranscript ==
  \/ \E c \in {"running", "suspended"} : StartClick(c, "")
  \/ getUserMediaResolved(1)
  \/ onopen(1)
  \/ \E msg \in TranscriptMsgs : msgSeq < MaxDeltas /\ onmessage(1, msg)
  \/ \E h \in handlers : resumed(h)
  \/ \E h \in handlers : decoded(h, 1)
  \/ \E h \in handlers : decodeFailed(h)

SpecTranscript == Init /\ [][NextTranscript]_vars

\* The playback scheduler under load: a call that connects, then audio
\* chunks of several durations and interruptions, with the output clock
\* advancing between and during the handlers.
PlayMsgs == {Msg(<<>>, <<>>, TRUE, FALSE), Msg(<<>>, <<>>, FALSE, TRUE),
             Msg(<<>>, <<>>, TRUE, TRUE)}

NextPlayback ==
  \/ \E c \in {"running", "suspended"} : StartClick(c, "")
  \/ getUserMediaResolved(1)
  \/ onopen(1)
  \/ \E msg \in PlayMsgs : msgSeq < MaxChunks /\ onmessage(1, msg)
  \/ \E h \in handlers : resumed(h)
  \/ \E h \in handlers, d \in Durations : decoded(h, d)
  \/ \E h \in handlers : decodeFailed(h)
  \/ \E i \in 1..Len(sources) : onended(i)
  \/ tick(1, MaxPlayClock)

SpecPlayback == Init /\ [][NextPlayback]_vars

\* Capture under load: frames of every content, mute toggles, a transport
\* error and a retry.
\* frames whose samples after the first are equal: silence, every level
\* around the threshold (below, at, above) and full-scale speech
Frames ==
  {[i \in 1..FrameLen |-> IF i = 1 THEN u ELSE v] : u \in Samples, v \in {0, 1}}
    \cup {Loud}

NextCapture ==
  \/ StartClick("running", "")
  \/ Retry("running", "")
  \/ \E a \in Attempts : getUserMediaResolved(a)
  \/ \E a \in Attempts : onopen(a)
  \/ \E a \in Attempts, closes \in BOOLEAN : onerror(a, closes)
  \/ \E p \in Attempts, f \in Frames :
       nFrames < MaxGateFrames /\ onaudioprocess(p, f)
  \/ toggleMute

SpecCapture == Init /\ [][NextCapture]_vars

\* The controller alone: user actions, acquisitions settling and transport
\* callbacks, with no server messages and no captured frames.
NextControl ==
  \/ \E c \in CtxStates, m \in ErrMessages : StartClick(c, m)
  \/ \E c \in CtxStates, m \in ErrMessages : Retry(c, m)
  \/ \E a \in Attempts : getUserMediaResolved(a)
  \/ \E a \in Attempts, m \in ErrMessages : getUserMediaRejected(a, m)
  \/ \E a \in Attempts : onopen(a)
  \/ \E a \in Attempts, closes \in BOOLEAN : onerror(a, closes)
  \/ \E a \in Attempts : onclose(a)
  \/ \E a \in Attempts : connectRejected(a)
  \/ toggleMute
  \/ handleHangup
  \/ unmount
  \/ cancel

SpecControl == Init /\ [][NextControl]_vars

\* A session with everything that can happen around the transcript: deltas
\* of both roles, audio chunks, interruptions, transport errors, retries and
\* mute toggles.
SessionMsgs ==
  {Msg(<<"Hei">>, <<>>, FALSE, FALSE), Msg(<<>>, <<"stopp">>, FALSE, FALSE),
   Msg(<<>>, <<>>, TRUE, FALSE), Msg(<<>>, <<>>, FALSE, TRUE)}

NextSession ==
  \/ StartClick("running", "")
  \/ Retry("running", "")
  \/ \E a \in Attempts : getUserMediaResolved(a)
  \/ \E a \in Attempts : onopen(a)
  \/ \E a \in Attempts, closes \in BOOLEAN : onerror(a, closes)
  \/ \E a \in Attempts, msg \in SessionMsgs : msgSeq < MaxMsgs /\ onmessage(a, msg)
  \/ \E h \in handlers : decoded(h, 1)
  \/ \E h \in handlers : decodeFailed(h)
  \/ toggleMute

SpecSession == Init /\ [][NextSession]_vars

\* Capture across sessions: a call whose transport fails and closes, a
\* retry, a hangup, with silent and loud frames at any point.
NextRecapture ==
  \/ StartClick("running", "")
  \/ Retry("running", "")
  \/ \E a \in Attempts : getUserMediaResolved(a)
  \/ \E a \in Attempts : onopen(a)
  \/ \E a \in Attempts : onerror(a, TRUE)
  \/ \E p \in Attempts, f \in {Silence, Loud} :
       nFrames < MaxGateFrames /\ onaudioprocess(p, f)
  \/ handleHangup

SpecRecapture == Init /\ [][NextRecapture]_vars

\* A call whose transport fails while messages of the agent are still being
\* decoded, and the retry after it; a failed transport is gone.
NextSuperseded ==
  \/ StartClick("running", "")
  \/ Retry("running", "")
  \/ \E a \in Attempts : getUserMediaResolved(a)
  \/ \E a \in Attempts : onopen(a)
  \/ \E a \in Attempts : onerror(a, TRUE)
  \/ \E a \in Attempts, msg \in LifeMsgs : msgSeq < MaxMsgs /\ onmessage(a, msg)
  \/ \E h \in handlers : decoded(h, 1)
  \/ \E h \in handlers : decodeFailed(h)
  \/ render
  \/ handleHangup

SpecSuperseded == Init /\ [][NextSuperseded]_vars

\* A call that is hung up, and the evaluation screen after it.  The effect
\* of a mounted component runs, and a pending request to the evaluation
\* service settles (with a result or with a failure).
NextEvaluation ==
  \/ StartClick("running", "")
  \/ \E a \in Attempts : getUserMediaResolved(a)
  \/ \E a \in Attempts : onopen(a)
  \/ \E a \in Attempts, msg \in SessionMsgs : msgSeq < MaxMsgs /\ onmessage(a, msg)
  \/ \E h \in handlers : decoded(h, 1)
  \/ \E c \in Attempts : tick(c, MaxClock)
  \/ render
  \/ handleHangup
  \/ runEval
  \/ \E ok \in BOOLEAN : evaluateSession(ok)

SpecEvaluation ==
  /\ Init /\ [][NextEvaluation]_vars
  /\ WF_vars(runEval)
  /\ WF_vars(\E ok \in BOOLEAN : evaluateSession(ok))

\* The application from its start: product form, persona screen, call screen
\* (a voice call is represented by what it reports to the application: the
\* transcript of the end button, or the cancel of its error view), text
\* chat, evaluation screen and restart.
MaxChats == 2
MaxSends == 2
CallTranscripts ==
  {<<>>, <<[role |-> "model", text |-> "Hei", timestamp |-> 1]>>}

NextApp ==
  \/ handleSubmit
  \/ \E o \in Outcomes : handleSubmitSettled(o)
  \/ \E o \in Outcomes : load(o)
  \/ (callMode = "TEXT" => chats < MaxChats) /\ handlePersonaSelected
  \/ onBack
  \/ \E m \in {"VOICE", "TEXT"} : chats < MaxChats /\ setCallMode(m)
  \/ \E t \in CallTranscripts : callMode = "VOICE" /\ handleEndCall(t)
  \/ onCancel
  \/ endChat
  \/ sends < MaxSends /\ handleSend
  \/ \E r \in requests, o \in {"text", "rejected"} : sendMessageSettled(r, o)
  \/ runEval
  \/ \E ok \in BOOLEAN : evaluateSession(ok)
  \/ handleRestart

SpecApp == InitApp /\ [][NextApp]_vars

\* The call screen switched between voice and text chat, and the chat.
NextChat ==
  \/ unmount
  \/ \E m \in {"VOICE", "TEXT"} : ~mountedRef /\ chats < MaxChats /\ setCallMode(m)
  \/ sends < MaxSends /\ handleSend
  \/ \E r \in requests, o \in {"text", "noText", "rejected"} :
       sendMessageSettled(r, o)
  \/ endChat

SpecChat == Init /\ [][NextChat]_vars


\* ------------------------------------------------------------------ claims
LiveStreams == {a \in Attempts : stream[a] = "live"}
OpenSessions == {a \in Attempts : session[a] = "open"}
AttachedProcessors == {a \in Attempts : processor[a] = "attached"}
OpenContexts == {a \in Attempts : ctx[a].state \in {"running", "suspended"}}
\* no getUserMedia request and no connect is still pending
Settled ==
  \A a \in Attempts : call[a].pc # "getUserMedia" /\ session[a] # "connecting"

\* C1: a call torn down (hangup or unmount) while Connecting ends, and once
\* every pending acquisition has settled no microphone track is live and no
\* transport session is open.
C1_HangupDuringConnecting ==
  (teardownIn = "connecting" /\ Settled) =>
    (ended # "no" /\ LiveStreams = {} /\ OpenSessions = {})

\* C2: after a hangup from Connected every session resource is released:
\* the transport session is closed, every microphone track is stopped, the
\* capture processor is disconnected, the playback active set is empty and
\* no scheduled buffer still plays.
C2_EndedReleased ==
  ended = "hangup" =>
    /\ \A a \in Attempts : session[a] \notin {"connecting", "open"}
    /\ LiveStreams = {}
    /\ AttachedProcessors = {}
    /\ audioQueueRef = {}
    /\ \A i \in 1..Len(sources) :
         sources[i].state = "scheduled" => ctx[sources[i].ctx].state = "closed"

\* C3: at any time at most one transport session is open and at most one
\* microphone stream is acquired.
C3_OneSession ==
  /\ Cardinality(OpenSessions) <= 1
  /\ Cardinality(LiveStreams) <= 1

\* C4: whenever the controller is in Error, no microphone track is live, no
\* capture processor is attached, no transport session is open and no
\* playback output or active buffer is held.
C4_ErrorReleased ==
  (mountedRef /\ status = "error") =>
    /\ LiveStreams = {}
    /\ AttachedProcessors = {}
    /\ OpenSessions = {}
    /\ OpenContexts = {}
    /\ audioQueueRef = {}

\* C5: after teardown no step (a pending acquisition resolving, a transport
\* callback) stores a resource handle, opens a transport, starts capture, or
\* changes status, transcript or playback state.
C5_DiscardAfterCancel ==
  [][~mountedRef =>
       /\ UNCHANGED <<streamRef, sessionPromiseRef, processorRef, inputSourceRef,
                      audioContextRef>>
       /\ \A a \in Attempts :
            /\ stream[a] # "live" => stream'[a] # "live"
            /\ session[a] = "none" => session'[a] = "none"
            /\ processor[a] # "attached" => processor'[a] # "attached"
       /\ UNCHANGED <<status, transcript, nextStartTimeRef, audioQueueRef,
                      sources>>]_vars


\* The transcript as roles and texts, without the timestamps.
TranscriptView ==
  [k \in 1..Len(transcript) |->
     [role |-> transcript[k].role, text |-> transcript[k].text]]

RECURSIVE ConcatTexts(_, _, _)
ConcatTexts(ds, i, j) ==
  IF i > j THEN "" ELSE ds[i].text \o ConcatTexts(ds, i + 1, j)

\* The maximal runs of consecutive deltas of one role: where each starts,
\* and the message each gives.
RunStarts(ds) == {i \in 1..Len(ds) : i = 1 \/ ds[i].role # ds[i - 1].role}
RunStart(ds, k) ==
  CHOOSE i \in RunStarts(ds) : Cardinality({j \in RunStarts(ds) : j <= i}) = k
RunEnd(ds, k) ==
  IF k = Cardinality(RunStarts(ds)) THEN Len(ds) ELSE RunStart(ds, k + 1) - 1
Runs(ds) ==
  [k \in 1..Cardinality(RunStarts(ds)) |->
     [role |-> ds[RunStart(ds, k)].role,
      text |-> ConcatTexts(ds, RunStart(ds, k), RunEnd(ds, k))]]

NonEmptyDelta(d) == d.text # ""

\* C6 as stated: the transcript has exactly one message per maximal run of
\* consecutive deltas of the same role, in arrival order, its text the
\* concatenation of the run's deltas.
C6_RunsOfAllDeltas == TranscriptView = Runs(deltas)

\* C6 amended: a delta with empty text is skipped; the transcript has exactly
\* one message per maximal run of consecutive non-empty deltas of the same
\* role, in arrival order, its text the concatenation of the run's deltas,
\* whatever audio chunks and interruptions arrive in between.
C6_RunsOfNonEmptyDeltas == TranscriptView = Runs(SelectSeq(deltas, NonEmptyDelta))

\* model 'Hei', model ' der', Interrupted, user 'stopp' was assembled.
C6_Witness ==
  /\ deltas = <<[role |-> "model", text |-> "Hei"], [role |-> "model", text |-> " der"],
                [role |-> "user", text |-> "stopp"]>>
  /\ lastInt.seq = 3
  /\ TranscriptView = <<[role |-> "model", text |-> "Hei der"],
                        [role |-> "user", text |-> "stopp"]>>

\* Deltas of roles [A,A,B,A] were assembled into three messages.
C6_RolesAABA ==
  /\ Len(deltas) = 4 /\ Len(SelectSeq(deltas, NonEmptyDelta)) = 4
  /\ deltas[1].role = deltas[2].role /\ deltas[2].role # deltas[3].role
  /\ deltas[4].role = deltas[1].role
  /\ Len(transcript) = 3
  /\ transcript[1].text = deltas[1].text \o deltas[2].text
  /\ transcript[2].text = deltas[3].text
  /\ transcript[3].text = deltas[4].text


\* C7: after an Interrupted event has been handled, no source made from an
\* audio chunk that arrived before it is in the active set or still scheduled
\* to play.
C7_NoBufferFromBeforeInterruption ==
  \A i \in 1..Len(sources) :
    sources[i].chunk < lastInt.seq =>
      (i \notin audioQueueRef /\ sources[i].state # "scheduled")

\* C8: the step that handles Interrupted at output-clock time T stops every
\* source of the active set, empties the set and sets nextStartTime to T; the
\* next source started after it starts at T, or at a later clock reading
\* taken for it, not at the cursor projected before the interruption.
C8_InterruptionResets ==
  [][/\ lastInt'.n > lastInt.n =>
          /\ audioQueueRef' = {}
          /\ \A i \in audioQueueRef : sources'[i].state = "stopped"
          /\ \A i \in 1..Len(sources') : sources'[i].state # "scheduled"
          /\ nextStartTimeRef' = ctx[audioContextRef].currentTime
          /\ lastInt'.T = ctx[audioContextRef].currentTime
     /\ (Len(sources') > Len(sources) /\ lastInt.fresh) =>
          LET s == sources'[Len(sources')] IN
            /\ s.first
            /\ s.start >= lastInt.T
            /\ s.start <= Max(lastInt.T, s.at)]_vars

\* An interruption stopped a source whose end lay ahead, and the next source
\* started at the time of the interruption, before that end.
C8_Witness ==
  \E i, j \in 1..Len(sources) :
    /\ i < j
    /\ sources[i].state = "stopped"
    /\ sources[j].first /\ sources[j].epoch = lastInt.n
    /\ sources[j].start = lastInt.T /\ lastInt.T > 0
    /\ sources[i].start + sources[i].dur > sources[j].start

RECURSIVE SumDur(_, _, _)
SumDur(ss, i, j) == IF i > j THEN 0 ELSE ss[i].dur + SumDur(ss, i + 1, j)

\* every source after f up to j was started with no chunk having come late
OnTimeRun(f, j) == \A k \in (f + 1)..j : sources[k].onTime

C10_Gate ==
  [][(/\ nFrames' = nFrames + 1
      /\ gate'.reached
      /\ sessionPromiseRef # NoRef
      /\ session[sessionPromiseRef] \in {"connecting", "open"}) =>
       LET s == sessionPromiseRef IN
         /\ sent'[s] + pendingSends'[s] =
              sent[s] + pendingSends[s]
                + (IF gate'.sumSq > Threshold * Threshold * gate'.len THEN 1 ELSE 0)
         /\ \A a \in Attempts \ {s} :
              sent'[a] = sent[a] /\ pendingSends'[a] = pendingSends[a]]_vars

\* After a frame was sent, a frame with RMS exactly at the threshold reached
\* the gate and was suppressed.
C10_Witness ==
  /\ gate.reached /\ gate.len > 0
  /\ gate.sumSq = Threshold * Threshold * gate.len
  /\ ~gate.passed
  /\ nFrames = 2 /\ sent[1] = 1


RECURSIVE SumTo(_, _)
SumTo(f, n) == IF n = 0 THEN 0 ELSE f[n] + SumTo(f, n - 1)

\* chunks handed to any transport session so far, sent or waiting on a
\* pending connect promise
Handed(sn, pn) == SumTo(sn, MaxAttempts) + SumTo(pn, MaxAttempts)

\* a frame was captured in this step while the call is shown as connected
\* over an open transport session
FrameWhileConnected ==
  /\ nFrames' = nFrames + 1
  /\ mountedRef /\ status = "connected"
  /\ sessionPromiseRef # NoRef /\ session[sessionPromiseRef] = "open"

\* C11: in a Connected, unmuted session a captured frame with RMS 0 causes
\* no transport send, and a captured frame with every sample at MaxSample
\* (RMS 0.5) causes exactly one.
C11_SilenceNoneLoudOne ==
  [][(FrameWhileConnected /\ ~isMuted) =>
       /\ gate'.sumSq = 0 =>
            Handed(sent', pendingSends') = Handed(sent, pendingSends)
       /\ gate'.sumSq = MaxSample * MaxSample * gate'.len =>
            Handed(sent', pendingSends') = Handed(sent, pendingSends) + 1]_vars

\* C13: while the mute flag is set in a Connected session no captured frame
\* is handed to the transport, whatever its RMS; while it is clear, a frame
\* above the threshold is.
C13_MuteStopsForwarding ==
  [][FrameWhileConnected =>
       /\ isMuted => Handed(sent', pendingSends') = Handed(sent, pendingSends)
       /\ (~isMuted /\ gate'.sumSq > Threshold * Threshold * gate'.len) =>
            Handed(sent', pendingSends') = Handed(sent, pendingSends) + 1]_vars


\* C12: the controller is never left in Connecting after a failed
\* acquisition: while the status is Connecting some acquisition of the
\* current attempt is still pending (the microphone request or the transport
\* connect); a failure of either has moved the status to Error.
C12_ConnectingHasPending ==
  (mountedRef /\ status = "connecting") =>
    (call[attempts].pc = "getUserMedia" \/ session[attempts] = "connecting")


\* C14: a transport error event (a step that sets Error or its message and
\* is neither a start nor the result of a microphone request) takes the
\* status to Error only from Connecting or Connected; in Idle, in Error and
\* after the end it changes neither the status nor the message.
C14_ErrorOnlyFromLive ==
  [][(/\ UNCHANGED <<attempts, call>>
      /\ status' = "error"
      /\ <<status, errorMsg>>' # <<status, errorMsg>>) =>
       status \in {"connecting", "connected"}]_vars

\* C15: the status becomes Connected only from Connecting, and a capture
\* processor is attached only in the step that takes the status from
\* Connecting to Connected.
C15_ConnectedOnlyFromConnecting ==
  [][/\ (status' = "connected" /\ status # "connected") => status = "connecting"
     /\ (\E a \in Attempts : processor'[a] = "attached" /\ processor[a] # "attached")
          => (status = "connecting" /\ status' = "connected")]_vars


\* C16: no automatic retry: the status enters Connecting only in a step that
\* starts a new attempt, and a new attempt is started only by a user action
\* on the mounted component in Idle (start) or Error (retry); in Error the
\* user can always cancel instead.
C16_NoAutomaticRetry ==
  /\ []((mountedRef /\ status = "error") => ENABLED cancel)
  /\ [][/\ (status' = "connecting" /\ status # "connecting") =>
             attempts' = attempts + 1
        /\ attempts' # attempts =>
             (mountedRef /\ status \in {"idle", "error"})]_vars

\* A transport error ended the first attempt in Error and a retry started
\* the second.
C16_Witness ==
  /\ attempts = 2 /\ status = "connecting"
  /\ session[1] \in {"closed", "failed"}
  /\ call[2].pc = "getUserMedia"


\* C17: on hangup the caller receives exactly the transcript accumulated up
\* to that moment, every message assembled from the deltas received before
\* the hangup, nothing missing and nothing extra.
C17_HangupHandsTranscript ==
  ended = "hangup" => callResult = transcript


\* C18: from every state the controller reaches (nothing acquired; playback
\* output open but no microphone; microphone held but no capture processor;
\* everything acquired; after a release) cleanup completes without error,
\* a second cleanup completes too and leaves what the first left.
C18_CleanupIdempotentTotal ==
  /\ cleanupCompletes(Res)
  /\ cleanupCompletes(cleanup(Res))
  /\ cleanup(cleanup(Res)) = cleanup(Res)

\* A hangup released a call that had acquired everything; before it the
\* partial states were passed through.
C18_Witness ==
  /\ ended = "hangup"
  /\ stream[1] = "stopped" /\ processor[1] = "disconnected"
  /\ inputSource[1] = "disconnected" /\ ctx[1].state = "closed"
  /\ audioContextRef = NoRef /\ processorRef = NoRef


\* the texts one delta can add to a message
DeltaTexts == {"", "Hei", " der", "stopp"}

C21_SendOnlyWhileConnected ==
  [][SumTo(sent', MaxAttempts) > SumTo(sent, MaxAttempts) =>
       (mountedRef /\ (status = "connected" \/ status' = "connected"))]_vars

\* C28: at most one capture processor is attached at any time, across any
\* sequence of connect, error and retry.
C28_OneCapturePipeline == Cardinality(AttachedProcessors) <= 1


\* C22: the first buffer of every attempt (the first source made on the
\* attempt's output context) is scheduled at that context's current time:
\* its start time is not ahead of the clock at the start call.
C22_CursorStartsAtClock ==
  \A i \in 1..Len(sources) :
    (\A j \in 1..(i - 1) : sources[j].ctx # sources[i].ctx) =>
      sources[i].start <= sources[i].at


\* C23: no buffer is started with a start time earlier than the output
\* clock's time at the moment of the start call, even when the clock
\* advanced while the chunk was being decoded.
C23_StartNotInThePast ==
  \A i \in 1..Len(sources) : sources[i].start >= sources[i].at


\* C24: chunks are scheduled in arrival order: of two sources made with no
\* interruption handled between them, the one whose chunk arrived first has
\* the earlier start time.
C24_ArrivalOrder ==
  \A i, j \in 1..Len(sources) :
    (sources[i].epoch = sources[j].epoch /\ sources[i].chunk < sources[j].chunk)
      => sources[i].start < sources[j].start


C26_ActiveSetExact ==
  audioQueueRef = {i \in 1..Len(sources) : sources[i].state = "scheduled"}

\* One source played to its end, one was stopped by an interruption, and a
\* third is in the set alone.
C26_Witness ==
  \E i, j, k \in 1..Len(sources) :
    /\ sources[i].state = "ended" /\ sources[j].state = "stopped"
    /\ sources[k].state = "scheduled"
    /\ audioQueueRef = {k}


\* C27: a step that changes the mute flag changes nothing else: status,
\* transcript, refs, microphone stream, capture processor, transport session,
\* pending and sent chunks and playback state are as before, and while the
\* call is connected the processor goes on receiving frames.
C27_MuteOnlyFlag ==
  /\ [][isMuted' # isMuted =>
          UNCHANGED <<status, errorMsg, volumeLevel, transcript, refVars,
                      playVars, objVars, sendVars, orderVars, attempts, call,
                      msgSeq, ended, callResult>>]_vars
  /\ []((mountedRef /\ status = "connected" /\ attempts = 1) =>
          ENABLED onaudioprocess(1, Loud))

\* The call is muted and its microphone stream and capture processor are
\* still attached; the next frame can be captured.
C27_Witness ==
  /\ isMuted /\ status = "connected" /\ attempts = 1
  /\ stream[1] = "live" /\ processor[1] = "attached" /\ session[1] = "open"
  /\ nFrames = 1
  /\ ENABLED onaudioprocess(1, Loud)


\* C29: once the call has been retried, a step of the first session (its
\* onopen, onerror or onclose, or the end of one of its onmessage handlers)
\* changes neither the status nor the transcript nor the playback state
\* (cursor, active set, started sources).
C29_SupersededSessionSilent ==
  [][(/\ attempts = 2
      /\ \/ session'[1] # session[1]
         \/ \E h \in handlers : h.ctx = 1 /\ h \notin handlers')
     => UNCHANGED <<status, transcript, nextStartTimeRef, audioQueueRef,
                    sources>>]_vars


\* C30: after a hangup the evaluation screen eventually shows a result
\* (it leaves its loading state), whatever transcript the call handed over.
C30_EvaluationCompletes == (ended = "hangup") ~> (evaluation # "null")


\* C31: in status error the stored message is not empty; a step that enters
\* connecting leaves the message empty; a step that stays in connected does
\* not change the message.
C31_ErrorMessage ==
  /\ [](status = "error" => errorMsg # "")
  /\ [][(status # "connecting" /\ status' = "connecting") => errorMsg' = ""]_vars
  /\ [][(status = "connected" /\ status' = "connected") =>
          errorMsg' = errorMsg]_vars

\* The first attempt failed, the retry cleared its message, and the retry
\* failed with an exception that carries no message.
C31_Witness ==
  /\ attempts = 2 /\ status = "error" /\ errorMsg = ErrStart
  /\ call[1].pc = "failed" /\ call[2].pc = "failed"
  /\ ctx[1].state # "none" /\ ctx[2].state # "none"


\* C32: while the application is CALLING or EVALUATION a persona is selected
\* and a product context is stored; while it is PERSONA_SELECTION a product
\* context is stored; a step that enters EVALUATION starts in CALLING and is
\* the end-of-call callback (it stores the transcript and mounts the
\* evaluation screen).
C32_ScreenInvariant ==
  /\ [](state \in {"CALLING", "EVALUATION"} =>
          (selectedPersona # "null" /\ productContext # "null"))
  /\ [](state = "PERSONA_SELECTION" => productContext # "null")
  /\ [][(state # "EVALUATION" /\ state' = "EVALUATION") =>
          (state = "CALLING" /\ evalCall'.pc = "mounted")]_vars

\* After a call in text chat, its evaluation and a restart, the persona
\* screen is shown again with the product kept and no persona selected.
C32_Witness ==
  /\ state = "PERSONA_SELECTION" /\ selectedPersona = "null"
  /\ productContext # "null" /\ chats > 0 /\ callMode = "TEXT"

C34_OneRequestInFlight == Cardinality(requests) <= 1

=============================================================================
